---- MODULE Spec2Model ----
(***************************************************************************)
(* intune-explorer: the cached snapshot of groups, memberships, artifacts  *)
(* and assignments, its refresh from the remote API (Database.reload) and  *)
(* the report of one group (Database.show_group_summary), driven by the    *)
(* module's main sequence.                                                 *)
(***************************************************************************)
EXTENDS Integers, Sequences, FiniteSets, TLC

\* ------------------------------------------------------------------ text
\* A Python str is modelled as the sequence of its code points, so that
\* concatenation, upper() and the ordering used by sorted() are computed.
Text ==
     "g1"                   :> <<103, 49>>
  @@ "g2"                   :> <<103, 50>>
  @@ "g3"                   :> <<103, 51>>
  @@ "g4"                   :> <<103, 52>>
  @@ "Engineering"          :> <<69, 110, 103, 105, 110, 101, 101, 114, 105, 110, 103>>
  @@ "AllStaff"             :> <<65, 108, 108, 83, 116, 97, 102, 102>>
  @@ "Sales"                :> <<83, 97, 108, 101, 115>>
  @@ "Zeta"                 :> <<90, 101, 116, 97>>
  @@ "x1"                   :> <<120, 49>>
  @@ "x2"                   :> <<120, 50>>
  @@ "AppX"                 :> <<65, 112, 112, 88>>
  @@ "Zed"                  :> <<90, 101, 100>>
  @@ "required"             :> <<114, 101, 113, 117, 105, 114, 101, 100>>
  @@ "available"            :> <<97, 118, 97, 105, 108, 97, 98, 108, 101>>
  @@ "- "                   :> <<45, 32>>
  @@ " ("                   :> <<32, 40>>
  @@ ") "                   :> <<41, 32>>
  @@ "["                    :> <<91>>
  @@ "] "                   :> <<93, 32>>
  @@ "(directly assigned)"  :> <<40, 100, 105, 114, 101, 99, 116, 108, 121, 32, 97, 115, 115, 105, 103, 110, 101, 100, 41>>
  @@ "(via "                :> <<40, 118, 105, 97, 32>>
  @@ ")"                    :> <<41>>
  @@ "Nobody"               :> <<78, 111, 98, 111, 100, 121>>
  @@ "?"                    :> <<63>>
  @@ "None"                 :> <<78, 111, 110, 101>>
  @@ "-"                    :> <<45>>
  @@ " "                    :> <<32>>

T(s) == Text[s]

\* str.upper() on ASCII text.
Upper(s) == [i \in DOMAIN s |-> IF s[i] >= 97 /\ s[i] <= 122 THEN s[i] - 32 ELSE s[i]]

\* Python's str ordering: by code point, a proper prefix sorts first.
RECURSIVE StrLess(_, _)
StrLess(a, b) ==
    IF b = <<>> THEN FALSE
    ELSE IF a = <<>> THEN TRUE
    ELSE IF Head(a) # Head(b) THEN Head(a) < Head(b)
    ELSE StrLess(Tail(a), Tail(b))

RECURSIVE InsertSorted(_, _)
InsertSorted(x, s) ==
    IF s = <<>> THEN <<x>>
    ELSE IF StrLess(x, Head(s)) THEN <<x>> \o s
    ELSE <<Head(s)>> \o InsertSorted(x, Tail(s))

\* sorted() left out: the lines in the order they were collected.
unsorted(lines) == lines

\* sorted(lines): ascending, stable.
RECURSIVE sorted(_)
sorted(lines) ==
    IF lines = <<>> THEN <<>>
    ELSE InsertSorted(lines[Len(lines)], sorted(SubSeq(lines, 1, Len(lines) - 1)))

\* level * "-"
RECURSIVE Dashes(_)
Dashes(level) == IF level <= 0 THEN <<>> ELSE T("-") \o Dashes(level - 1)

\* ------------------------------------------------------------ sequences
Range(s) == {s[i] : i \in DOMAIN s}

RECURSIVE Flatten(_)
Flatten(ss) == IF ss = <<>> THEN <<>> ELSE Head(ss) \o Flatten(Tail(ss))

\* The de-duplication left out.
Deduplicate_none(ids) == ids

\* list(dict.fromkeys(ids)): the first occurrence of each id, in order.
RECURSIVE Deduplicate(_)
Deduplicate(ids) ==
    IF ids = <<>> THEN <<>>
    ELSE LET init == Deduplicate(SubSeq(ids, 1, Len(ids) - 1))
             last == ids[Len(ids)]
         IN  IF last \in Range(init) THEN init ELSE Append(init, last)

\* ------------------------------------------------------------- the store
\* The artifact kinds: one (artifact, assignment) table pair each.
Kinds ==
    {"apps", "scripts", "device_compliance_policies", "configuration_policies",
     "group_policies", "device_configuration_profiles",
     "windows_deployment_profiles", "intent_profiles"}

\* The kinds that exist only behind beta_enabled.
BetaKinds ==
    {"windows_deployment_profiles", "scripts", "configuration_policies",
     "group_policies", "intent_profiles"}

\* A table that was never created (SELECT raises "no such table").
NoTable == [exists |-> FALSE, rows |-> <<>>]

Table(rows) == [exists |-> TRUE, rows |-> rows]

\* The snapshot file before any import: no table at all.
EmptyStore ==
    [groups |-> NoTable, memberships |-> NoTable,
     artifacts |-> [k \in Kinds |-> NoTable],
     assignments |-> [k \in Kinds |-> NoTable]]

None == "None"

RECURSIVE FirstMatch(_, _, _, _)
FirstMatch(rows, column, value, default) ==
    IF rows = <<>> THEN default
    ELSE IF Head(rows)[column] = value THEN Head(rows)
    ELSE FirstMatch(Tail(rows), column, value, default)

\* A lookup that falls back to the first group when no name matches.
get_group_id_any(store, group_name) ==
    LET rows == store.groups.rows
        row == FirstMatch(rows, "display_name", group_name,
                          IF rows = <<>> THEN [id |-> None] ELSE Head(rows))
    IN  row.id

\* SELECT id FROM groups WHERE display_name = ?  -> the first row, or None.
get_group_id(store, group_name) ==
    LET row == FirstMatch(store.groups.rows, "display_name", group_name, [id |-> None])
    IN  row.id

\* SELECT display_name FROM groups WHERE id = ?  -> the first row, or "?".
get_group_name(store, group_id) ==
    LET row == FirstMatch(store.groups.rows, "id", group_id, [display_name |-> "?"])
    IN  row.display_name

\* The name lookup falling back to the id instead of "?".
get_artifact_name_id(store, k, artifact_id) ==
    LET row == FirstMatch(store.artifacts[k].rows, "id", artifact_id, [display_name |-> artifact_id])
    IN  row.display_name

\* get_app_name, get_script_name, ...: one per kind, the same lookup on the
\* kind's artifact table.
get_artifact_name(store, k, artifact_id) ==
    LET row == FirstMatch(store.artifacts[k].rows, "id", artifact_id, [display_name |-> "?"])
    IN  row.display_name

\* --------------------------------------------------------------- resolver
GroupIds == {"g1", "g2", "g3", "g4"}

\* The interpreter's recursion limit, scaled to the model: deeper than any
\* chain of distinct groups, so it is hit exactly when the walk is on a cycle.
RecursionLimit == Cardinality(GroupIds) + 1

RecursionError == [ok |-> FALSE, ids |-> <<>>]

\* SELECT parent_id FROM memberships WHERE child_id = ?
ParentRows(store, group_id) ==
    LET Hit(r) == r.child_id = group_id
        rows == SelectSeq(store.memberships.rows, Hit)
    IN  [i \in DOMAIN rows |-> rows[i].parent_id]

\* SELECT child_id FROM memberships WHERE parent_id = ?
ChildRows(store, group_id) ==
    LET Hit(r) == r.parent_id = group_id
        rows == SelectSeq(store.memberships.rows, Hit)
    IN  [i \in DOMAIN rows |-> rows[i].child_id]

\* The recursive walk shared by get_parent_groups and get_child_groups:
\* for each row, the row's id followed by the walk from that id.  `depth`
\* is the number of frames on the stack.
Rows(store, dir, group_id) ==
    IF dir = "parents" THEN ParentRows(store, group_id) ELSE ChildRows(store, group_id)

RECURSIVE Walk(_, _, _, _)
RECURSIVE WalkRows(_, _, _, _, _)
Walk(store, dir, group_id, depth) ==
    IF depth > RecursionLimit THEN RecursionError
    ELSE WalkRows(store, dir, Rows(store, dir, group_id), depth, <<>>)

WalkRows(store, dir, rows, depth, acc) ==
    IF rows = <<>> THEN [ok |-> TRUE, ids |-> acc]
    ELSE LET sub == Walk(store, dir, Head(rows), depth + 1)
         IN  IF ~sub.ok THEN RecursionError
             ELSE WalkRows(store, dir, Tail(rows), depth, acc \o <<Head(rows)>> \o sub.ids)

\* The walk without its recursive call: the direct parents only.
get_parent_groups_direct(store, group_id) ==
    [ok |-> TRUE, ids |-> ParentRows(store, group_id)]

get_parent_groups(store, group_id) == Walk(store, "parents", group_id, 1)

get_child_groups(store, group_id) == Walk(store, "children", group_id, 1)

\* print_parent_groups_hierarchy / print_child_groups_hierarchy: one line
\* level * "-" + " " + name per row, then the rows of that group one level
\* deeper.
RECURSIVE Hierarchy(_, _, _, _, _)
RECURSIVE HierarchyRows(_, _, _, _, _, _)
Hierarchy(store, dir, group_id, level, depth) ==
    IF depth > RecursionLimit THEN RecursionError
    ELSE HierarchyRows(store, dir, Rows(store, dir, group_id), level, depth, <<>>)

HierarchyRows(store, dir, rows, level, depth, acc) ==
    IF rows = <<>> THEN [ok |-> TRUE, ids |-> acc]
    ELSE LET line == Dashes(level) \o T(" ") \o T(get_group_name(store, Head(rows)))
             sub == Hierarchy(store, dir, Head(rows), level + 1, depth + 1)
         IN  IF ~sub.ok THEN RecursionError
             ELSE HierarchyRows(store, dir, Tail(rows), level, depth,
                                acc \o <<line>> \o sub.ids)

print_parent_groups_hierarchy(store, group_id, level) ==
    Hierarchy(store, "parents", group_id, level, 1)

print_child_groups_hierarchy(store, group_id, level) ==
    Hierarchy(store, "children", group_id, level, 1)

\* ------------------------------------------------------------- aggregator
\* SELECT ... FROM <kind>_assignments WHERE group_id = ?, in row order.
AssignmentRows(store, k, group_id) ==
    LET Hit(r) == r.group_id = group_id
    IN  SelectSeq(store.assignments[k].rows, Hit)

\* A dict that keeps the value of a key's first row.
RECURSIVE DictOfRows_first(_)
DictOfRows_first(rows) ==
    IF rows = <<>> THEN <<>>
    ELSE LET init == DictOfRows_first(SubSeq(rows, 1, Len(rows) - 1))
             last == rows[Len(rows)]
         IN  IF \E i \in DOMAIN init : init[i].id = last.id
             THEN init
             ELSE Append(init, [id |-> last.id, intent |-> last.intent])

\* assignments[row[0]] = {...} for each row: a dict keeps one entry per key,
\* at the position of the key's first row, holding the value of its last row.
RECURSIVE DictOfRows(_)
DictOfRows(rows) ==
    IF rows = <<>> THEN <<>>
    ELSE LET init == DictOfRows(SubSeq(rows, 1, Len(rows) - 1))
             last == rows[Len(rows)]
             entry == [id |-> last.id, intent |-> last.intent]
         IN  IF \E i \in DOMAIN init : init[i].id = last.id
             THEN [i \in DOMAIN init |-> IF init[i].id = last.id THEN entry ELSE init[i]]
             ELSE Append(init, entry)

\* get_app_assignments: the dict, iterated in key order.
get_app_assignments(store, group_id) ==
    DictOfRows(AssignmentRows(store, "apps", group_id))

\* get_script_assignments, get_device_compliance_policy_assignments, ...:
\* the list of artifact ids, one per row.
get_assignments(store, k, group_id) ==
    LET rows == AssignmentRows(store, k, group_id)
    IN  [i \in DOMAIN rows |-> [id |-> rows[i].id]]

\* "(directly assigned)" or "(via <group name>)".
Provenance(store, source) ==
    IF source = "direct" THEN T("(directly assigned)")
    ELSE T("(via ") \o T(get_group_name(store, source)) \o T(")")

\* The line of one assignment; only an app's line carries the intent.
Line(store, k, a, source) ==
    T("- ") \o T(get_artifact_name(store, k, a.id)) \o T(" (") \o T(a.id) \o T(") ")
    \o (IF k = "apps" THEN T("[") \o Upper(T(a.intent)) \o T("] ") ELSE <<>>)
    \o Provenance(store, source)

\* The lines one source group contributes to the section of kind k.
SourceLines(store, k, group_id, source) ==
    LET items == IF k = "apps" THEN get_app_assignments(store, group_id)
                 ELSE get_assignments(store, k, group_id)
    IN  [i \in DOMAIN items |-> Line(store, k, items[i], source)]

\* The lines of the parents left out for an artifact the target has a line
\* of: one line per artifact instead of one per source group.
CollectLines_collapsed(store, k, group_id, parent_ids) ==
    LET Items(g) == IF k = "apps" THEN get_app_assignments(store, g)
                    ELSE get_assignments(store, k, g)
        direct == Items(group_id)
        Fresh(a) == \A i \in DOMAIN direct : direct[i].id # a.id
        Inherited(g) == LET items == SelectSeq(Items(g), Fresh)
                        IN  [i \in DOMAIN items |-> Line(store, k, items[i], g)]
    IN  SourceLines(store, k, group_id, "direct")
        \o Flatten([i \in DOMAIN parent_ids |-> Inherited(parent_ids[i])])

\* lines = the target's lines, then each parent's, in parent_ids order.
CollectLines(store, k, group_id, parent_ids) ==
    SourceLines(store, k, group_id, "direct")
    \o Flatten([i \in DOMAIN parent_ids |-> SourceLines(store, k, parent_ids[i], parent_ids[i])])

\* The "None" placeholder left out.
PrintLines_always(lines) == sorted(lines)

\* What is printed under a section title: the sorted lines, or "None".
PrintLines(lines) == IF Len(lines) # 0 THEN sorted(lines) ELSE <<T("None")>>

\* The sections in the order show_group_summary prints them.
SectionOrder ==
    <<"apps", "scripts", "device_compliance_policies", "configuration_policies",
      "group_policies", "device_configuration_profiles", "intent_profiles",
      "windows_deployment_profiles">>

Title ==
    [k \in Kinds |->
        CASE k = "apps" -> "=== APPLICATIONS ==="
          [] k = "scripts" -> "=== SCRIPTS (via beta API) ==="
          [] k = "device_compliance_policies" -> "=== DEVICE COMPLIANCE POLICIES ==="
          [] k = "configuration_policies" -> "=== CONFIGURATION POLICIES (via beta API) ==="
          [] k = "group_policies" -> "=== GROUP POLICIES (via beta API) ==="
          [] k = "device_configuration_profiles" -> "=== DEVICE CONFIGURATION PROFILES ==="
          [] k = "intent_profiles" -> "=== INTENT PROFILES (via beta API) ==="
          [] k = "windows_deployment_profiles" -> "=== WINDOWS DEPLOYMENT PROFILES (via beta API) ==="]

\* One printed section: its title, whether the "beta API is not enabled"
\* note follows the title, the lines printed under it, and whether the
\* section was printed to its end.
Section(title, kind, note, lines, complete) ==
    [title |-> title, kind |-> kind, note |-> note, lines |-> lines, complete |-> complete]

\* The artifact sections from position i of SectionOrder on.  A section of a
\* kind whose tables do not exist stops the report after its title
\* (sqlite3.OperationalError: no such table).
RECURSIVE ArtifactSections(_, _, _, _, _)
ArtifactSections(store, beta, group_id, parent_ids, i) ==
    IF i > Len(SectionOrder) THEN [error |-> "", out |-> <<>>]
    ELSE LET k == SectionOrder[i]
             note == (k = "apps" /\ ~beta)
         IN  IF k \in BetaKinds /\ ~beta
             THEN ArtifactSections(store, beta, group_id, parent_ids, i + 1)
             ELSE IF ~store.assignments[k].exists
             THEN [error |-> "OperationalError",
                   out |-> <<Section(Title[k], k, note, <<>>, FALSE)>>]
             ELSE LET lines == CollectLines(store, k, group_id, parent_ids)
                      rest == ArtifactSections(store, beta, group_id, parent_ids, i + 1)
                  IN  [error |-> rest.error,
                       out |-> <<Section(Title[k], k, note, PrintLines(lines), TRUE)>>
                               \o rest.out]

\* Database.show_group_summary: what it prints, the error it ends with ("" for
\* none), and its de-duplicated parent_ids and child_ids.
NoSummary(error) == [error |-> error, out |-> <<>>, parent_ids |-> <<>>, child_ids |-> <<>>]

show_group_summary(store, beta, group_name) ==
    IF ~store.groups.exists THEN NoSummary("OperationalError")
    ELSE LET group_id == get_group_id(store, group_name)
         IN  IF group_id = None THEN NoSummary("")
             ELSE LET parents == get_parent_groups(store, group_id)
                  IN  IF ~parents.ok THEN NoSummary("RecursionError")
                      ELSE LET children == get_child_groups(store, group_id)
                           IN  IF ~children.ok THEN NoSummary("RecursionError")
                               ELSE LET parent_ids == Deduplicate(parents.ids)
                                        child_ids == Deduplicate(children.ids)
                                        header == Section("GROUP NAME", "header", FALSE,
                                                          <<T(group_name), T(group_id)>>, TRUE)
                                        member_of ==
                                            Section("=== MEMBER OF ===", "member_of", FALSE,
                                                IF Len(parent_ids) = 0 THEN <<T("None")>>
                                                ELSE print_parent_groups_hierarchy(store, group_id, 1).ids,
                                                TRUE)
                                        members ==
                                            Section("=== MEMBERS ===", "members", FALSE,
                                                IF Len(child_ids) = 0 THEN <<T("None")>>
                                                ELSE print_child_groups_hierarchy(store, group_id, 1).ids,
                                                TRUE)
                                        rest == ArtifactSections(store, beta, group_id, parent_ids, 1)
                                   IN  [error |-> rest.error,
                                        out |-> <<header, member_of, members>> \o rest.out,
                                        parent_ids |-> parent_ids,
                                        child_ids |-> child_ids]

\* ------------------------------------------------------------- the remote
ArtifactIds == {"x1", "x2"}

\* The target of an assignment that names no group (all devices, all users).
NoGroupId == "none"

\* GraphAPI.get_subgroups: the members of the group whose type is group.
get_subgroups(remote, group_id) ==
    LET IsGroup(m) == m.odata_type = "#microsoft.graph.group"
    IN  SelectSeq(remote.members[group_id], IsGroup)

\* The field import_<kind> stores as display_name: policy["name"] for the
\* configuration policies, ["displayName"] for every other kind.
DisplayNameOf(k, record) ==
    IF k = "configuration_policies" THEN record.name ELSE record.displayName

\* import_groups: the rows inserted into groups and into memberships.
GroupRows(remote) ==
    [i \in DOMAIN remote.groups |->
        [id |-> remote.groups[i].id, display_name |-> remote.groups[i].displayName]]

MembershipRows(remote) ==
    Flatten([i \in DOMAIN remote.groups |->
        LET subgroups == get_subgroups(remote, remote.groups[i].id)
        IN  [j \in DOMAIN subgroups |->
                [parent_id |-> remote.groups[i].id, child_id |-> subgroups[j].id]]])

import_groups(store, remote) ==
    [store EXCEPT !.groups = Table(GroupRows(remote)),
                  !.memberships = Table(MembershipRows(remote))]

\* import_<kind>: the rows inserted into the kind's two tables.  An
\* assignment whose target names no group is skipped; only an app's row
\* carries the intent.
ArtifactRows(remote, k) ==
    [i \in DOMAIN remote.artifacts[k] |->
        [id |-> remote.artifacts[k][i].id,
         display_name |-> DisplayNameOf(k, remote.artifacts[k][i])]]

AssignmentRowsOf(remote, k, artifact_id) ==
    LET HasGroup(a) == a.groupId # NoGroupId
        kept == SelectSeq(remote.assignments[k][artifact_id], HasGroup)
    IN  [j \in DOMAIN kept |->
            IF k = "apps"
            THEN [id |-> artifact_id, group_id |-> kept[j].groupId, intent |-> kept[j].intent]
            ELSE [id |-> artifact_id, group_id |-> kept[j].groupId]]

ImportedAssignments(remote, k) ==
    Flatten([i \in DOMAIN remote.artifacts[k] |->
        AssignmentRowsOf(remote, k, remote.artifacts[k][i].id)])

\* The import without DROP TABLE: the new rows added to the old ones.
import_kind_append(store, remote, k) ==
    [store EXCEPT !.artifacts[k] = Table(store.artifacts[k].rows \o ArtifactRows(remote, k)),
                  !.assignments[k] =
                        Table(store.assignments[k].rows \o ImportedAssignments(remote, k))]

import_kind(store, remote, k) ==
    [store EXCEPT !.artifacts[k] = Table(ArtifactRows(remote, k)),
                  !.assignments[k] = Table(ImportedAssignments(remote, k))]

\* The imports Database.reload runs, in its order: the four it always runs,
\* then the five behind beta_enabled.
CoreOrder ==
    <<"groups", "apps", "device_compliance_policies", "device_configuration_profiles">>

BetaOrder ==
    <<"windows_deployment_profiles", "scripts", "configuration_policies",
      "group_policies", "intent_profiles">>

\* reload without its "if beta_enabled".
ReloadOrder_all(beta) == CoreOrder \o BetaOrder

ReloadOrder(beta) == IF beta THEN CoreOrder \o BetaOrder ELSE CoreOrder

import_step(store, remote, what) ==
    IF what = "groups" THEN import_groups(store, remote) ELSE import_kind(store, remote, what)

\* Database.reload run to its end.
RECURSIVE reload_from(_, _, _, _)
reload_from(store, remote, beta, i) ==
    IF i > Len(ReloadOrder(beta)) THEN store
    ELSE reload_from(import_step(store, remote, ReloadOrder(beta)[i]), remote, beta, i + 1)

\* ---------------------------------------------------- the data of a check
\* Bounds of the remote data the checks draw from.
MaxEdges == 4

MaxAssignments == 2

GroupOrder(rev) ==
    IF rev THEN <<"g4", "g3", "g2", "g1">> ELSE <<"g1", "g2", "g3", "g4">>

DisplayName ==
    [g \in GroupIds |->
        CASE g = "g1" -> "Engineering" [] g = "g2" -> "AllStaff"
          [] g = "g3" -> "Sales" [] g = "g4" -> "Zeta"]

\* A membership edge <<p, c>>: group p has the group c as a member.
Edges == {e \in GroupIds \X GroupIds : e[1] # e[2]}

\* What GET /groups returns under the prefix filter: the listed groups.
RemoteGroups(listed, rev) ==
    LET Listed(g) == g \in listed
        ids == SelectSeq(GroupOrder(rev), Listed)
    IN  [i \in DOMAIN ids |-> [id |-> ids[i], displayName |-> DisplayName[ids[i]]]]

\* What GET /groups/<id>/members returns: a user, then the member groups.
RemoteMembers(edges, rev) ==
    [g \in GroupIds |->
        LET Member(c) == <<g, c>> \in edges
            ids == SelectSeq(GroupOrder(rev), Member)
        IN  <<[id |-> "u1", odata_type |-> "#microsoft.graph.user"]>>
            \o [i \in DOMAIN ids |-> [id |-> ids[i], odata_type |-> "#microsoft.graph.group"]]]

ArtifactName == [a \in ArtifactIds |-> IF a = "x1" THEN "AppX" ELSE "Zed"]

\* What the collection endpoint of a kind returns: no intent profile, and
\* the two artifacts of every other kind.
RemoteArtifacts(rev) ==
    [k \in Kinds |->
        LET ids == IF rev THEN <<"x2", "x1">> ELSE <<"x1", "x2">>
        IN  IF k = "intent_profiles" THEN <<>>
            ELSE [i \in DOMAIN ids |->
                    IF k = "configuration_policies"
                    THEN [id |-> ids[i], name |-> ArtifactName[ids[i]]]
                    ELSE [id |-> ids[i], displayName |-> ArtifactName[ids[i]]]]]

To(g) == [groupId |-> g, intent |-> ""]

App(g, intent) == [groupId |-> g, intent |-> intent]

\* What the assignments endpoints return, given the assignments of the two
\* apps and of the two device compliance policies.
RemoteAssignments(app1, app2, pol1, pol2) ==
    [k \in Kinds |->
        CASE k = "apps" ->
                ("x1" :> app1) @@ ("x2" :> (<<App(NoGroupId, "required")>> \o app2))
          [] k = "device_compliance_policies" -> ("x1" :> pol1) @@ ("x2" :> pol2)
          [] k = "scripts" -> ("x1" :> <<To("g2")>>) @@ ("x2" :> <<>>)
          [] k = "configuration_policies" -> ("x1" :> <<>>) @@ ("x2" :> <<>>)
          [] k = "group_policies" -> ("x1" :> <<>>) @@ ("x2" :> <<To("g1")>>)
          [] k = "device_configuration_profiles" ->
                ("x1" :> <<To("g3"), To("g1")>>) @@ ("x2" :> <<To(NoGroupId)>>)
          [] k = "windows_deployment_profiles" ->
                ("x1" :> <<To("g1")>>) @@ ("x2" :> <<To("g1"), To("g1")>>)
          [] k = "intent_profiles" -> ("x1" :> <<>>) @@ ("x2" :> <<>>)]

Remote(listed, edges, rev, app1, app2, pol1, pol2) ==
    [groups |-> RemoteGroups(listed, rev),
     members |-> RemoteMembers(edges, rev),
     artifacts |-> RemoteArtifacts(rev),
     assignments |-> RemoteAssignments(app1, app2, pol1, pol2)]

\* Sequences of at most n elements of S.
SeqsUpTo(S, n) == UNION {[1..m -> S] : m \in 0..n}

\* The assignments the aggregation checks draw from.
AppChoices ==
    {App("g1", "required"), App("g1", "available"), App("g2", "required"),
     App("g3", "available")}

PolicyChoices == {To("g1"), To("g2"), To("g3")}

DefaultApp1 == <<App("g2", "required")>>

DefaultPolicy1 == <<To("g1")>>

\* Graphs of the aggregation checks.  Nested: g1 is in g2 and in g3, g2 is in
\* g3 (two paths from g1 to g3), and g4 is in g1.  Filtered: g1 is in g2,
\* g4 is in g1 but outside the prefix, g3 is unrelated.
NestedEdges == {<<"g2", "g1">>, <<"g3", "g2">>, <<"g3", "g1">>, <<"g1", "g4">>}

FilteredEdges == {<<"g2", "g1">>, <<"g1", "g4">>}

\* Remote data with every membership graph of at most MaxEdges edges.
GraphRemotes ==
    {Remote(GroupIds, edges, rev, DefaultApp1, <<>>, DefaultPolicy1, <<>>) :
        edges \in {E \in SUBSET Edges : Cardinality(E) <= MaxEdges}, rev \in BOOLEAN}

\* Remote data with every choice of app assignments, or of policy assignments.
ShapeRemotes(app1, app2, pol1, pol2) ==
    {Remote(GroupIds, NestedEdges, rev, app1, app2, pol1, pol2) : rev \in BOOLEAN}
    \cup {Remote(GroupIds \ {"g4"}, FilteredEdges, rev, app1, app2, pol1, pol2) : rev \in BOOLEAN}

AssignmentRemotes ==
    UNION {ShapeRemotes(app1, app2, DefaultPolicy1, <<>>) :
            app1 \in SeqsUpTo(AppChoices, MaxAssignments),
            app2 \in {<<>>, <<App("g2", "available")>>, <<App("g1", "required")>>}}
    \cup UNION {ShapeRemotes(DefaultApp1, <<>>, pol1, pol2) :
            pol1 \in SeqsUpTo(PolicyChoices, MaxAssignments),
            pol2 \in {<<>>, <<To("g2")>>}}

\* The remote data as it was when an existing snapshot was written.
EarlierRemote ==
    Remote(GroupIds, {<<"g3", "g1">>}, FALSE, <<App("g3", "available")>>, <<>>,
           <<To("g3")>>, <<To("g1")>>)

\* The snapshots an earlier run left: written with the flag on, or off.
EarlierSnapshots == {reload_from(EmptyStore, EarlierRemote, b, 1) : b \in BOOLEAN}

\* A snapshot with the rows of some groups and of some artifacts missing
\* from the groups table and from the artifact tables.
Without(s, groups, artifacts) ==
    LET KeepGroup(r) == r.id \notin groups
        KeepArtifact(r) == r.id \notin artifacts
    IN  [s EXCEPT !.groups = Table(SelectSeq(s.groups.rows, KeepGroup)),
                  !.artifacts = [k \in Kinds |->
                        Table(SelectSeq(s.artifacts[k].rows, KeepArtifact))]]

\* Remote data of the lookup checks: the two graphs, one app assignment.
LookupRemotes ==
    UNION {ShapeRemotes(app1, <<App("g1", "required")>>, DefaultPolicy1, <<To("g2")>>) :
            app1 \in SeqsUpTo(AppChoices, 1)}

\* ------------------------------------------------------------ the program
VARIABLES
    remote,        \* what the remote API serves during the run
    beta_enabled,  \* the configuration flag
    reload_arg,    \* --reload was given
    group_name,    \* the positional argument
    file_exists,   \* os.path.isfile(cache_database_path)
    store,         \* the tables of the snapshot file
    pc,            \* the position in the main sequence
    step,          \* inside Database.reload: the index of the next import
    reload,        \* the module's reload variable
    token,         \* GraphAPI.token
    fetched,       \* the resources fetched from the remote in this run
    report,        \* what show_group_summary printed and computed
    diag,          \* the diagnostic printed by get_token
    error,         \* the exception that ended the run, "" for none
    exit_status    \* the exit status: -1 while running

vars == <<remote, beta_enabled, reload_arg, group_name, file_exists, store, pc, step,
          reload, token, fetched, report, diag, error, exit_status>>

NoToken == "None"

\* A get_data that sends its request whatever the token is.
HasToken_always(tok) == TRUE

\* "if self.token:" in get_data: None and the empty string are false.
HasToken(tok) == tok \notin {NoToken, ""}

Running == 0 - 1

\* The state at the start of a run on the given inputs.
InitRun(remotes, flags, reload_args, names) ==
    /\ remote \in remotes
    /\ beta_enabled \in flags
    /\ reload_arg \in reload_args
    /\ group_name \in names
    /\ pc = "start"
    /\ step = 1
    /\ reload = reload_arg
    /\ token = NoToken
    /\ fetched = {}
    /\ report = NoSummary("")
    /\ diag = ""
    /\ error = ""
    /\ exit_status = Running

\* There is no snapshot file yet.
NoSnapshot == file_exists = FALSE /\ store = EmptyStore

\* The file an earlier run left whose refresh raised at its first fetch:
\* sqlite3.connect created it, and no table was created in it.
FailedFirstRun == file_exists = TRUE /\ store = EmptyStore

\* The runs checked: on every membership graph; on every choice of
\* assignments; and, with and without --reload, over the snapshot an
\* earlier run left.
Init ==
    \/ InitRun(GraphRemotes, {TRUE}, {FALSE}, {"Engineering"}) /\ NoSnapshot
    \/ InitRun(AssignmentRemotes, BOOLEAN, {FALSE}, {"Engineering", "AllStaff"}) /\ NoSnapshot
    \/ /\ InitRun(ShapeRemotes(DefaultApp1, <<>>, DefaultPolicy1, <<>>), BOOLEAN, BOOLEAN,
                   {"Engineering", "Zeta", "Nobody"})
       /\ NoSnapshot \/ FailedFirstRun \/ (file_exists = TRUE /\ store \in EarlierSnapshots)

\* The exception that ends the run, uncaught.
Raise(exception) ==
    /\ error' = exception
    /\ exit_status' = 1
    /\ pc' = "crashed"

\* The start of a run that refreshes only on --reload.
Start_flag_only ==
    /\ pc = "start"
    /\ reload' = reload_arg
    /\ pc' = "connect"
    /\ UNCHANGED <<remote, beta_enabled, reload_arg, group_name, file_exists, store, step,
                   token, fetched, report, diag, error, exit_status>>

\* Lines 646-651: the arguments, and the refresh forced by a missing file.
Start ==
    /\ pc = "start"
    /\ reload' = (reload_arg \/ ~file_exists)
    /\ pc' = "connect"
    /\ UNCHANGED <<remote, beta_enabled, reload_arg, group_name, file_exists, store, step,
                   token, fetched, report, diag, error, exit_status>>

\* api.connect: get_token returns the response's access_token.
ConnectOk ==
    /\ pc = "connect"
    /\ token' = "access_token"
    /\ pc' = "open"
    /\ UNCHANGED <<remote, beta_enabled, reload_arg, group_name, file_exists, store, step,
                   reload, fetched, report, diag, error, exit_status>>

\* A failed exchange that prints the description and lets the run go on.
ConnectFails_continue ==
    /\ pc = "connect"
    /\ diag' = "error_description"
    /\ pc' = "open"
    /\ UNCHANGED <<remote, beta_enabled, reload_arg, group_name, file_exists, store, step,
                   reload, token, fetched, report, error, exit_status>>

\* api.connect: the response carries no access_token; get_token prints the
\* error description and calls exit(0).
ConnectFails ==
    /\ pc = "connect"
    /\ diag' = "error_description"
    /\ exit_status' = 0
    /\ pc' = "exited"
    /\ UNCHANGED <<remote, beta_enabled, reload_arg, group_name, file_exists, store, step,
                   reload, token, fetched, report, error>>

\* api.connect: the response carries neither access_token nor
\* error_description; response["error_description"] raises KeyError inside
\* the except clause of get_token, before anything is printed.
ConnectRaises ==
    /\ pc = "connect"
    /\ Raise("KeyError")
    /\ UNCHANGED <<remote, beta_enabled, reload_arg, group_name, file_exists, store, step,
                   reload, token, fetched, report, diag>>

\* Database(api, cache_database_path): sqlite3.connect creates the file.
OpenDatabase ==
    /\ pc = "open"
    /\ file_exists' = TRUE
    /\ pc' = IF reload THEN "reload" ELSE "summary"
    /\ UNCHANGED <<remote, beta_enabled, reload_arg, group_name, store, step,
                   reload, token, fetched, report, diag, error, exit_status>>

\* The import Database.reload has arrived at.
AtImport(what) == pc = "reload" /\ ReloadOrder(beta_enabled)[step] = what

\* One import of Database.reload: the fetches through GraphAPI.get_data
\* (TokenException without a token), then drop, create, insert and commit.
Import(what) ==
    /\ IF ~HasToken(token)
       THEN /\ Raise("TokenException")
            /\ UNCHANGED <<store, step, fetched>>
       ELSE /\ store' = import_step(store, remote, what)
            /\ fetched' = fetched \cup {what}
            /\ IF step = Len(ReloadOrder(beta_enabled))
               THEN pc' = "summary" /\ step' = step
               ELSE pc' = pc /\ step' = step + 1
            /\ UNCHANGED <<error, exit_status>>
    /\ UNCHANGED <<remote, beta_enabled, reload_arg, group_name, file_exists,
                   reload, token, report, diag>>

ImportGroups ==
    /\ AtImport("groups")
    /\ Import("groups")

ImportApps ==
    /\ AtImport("apps")
    /\ Import("apps")

ImportDeviceCompliancePolicies ==
    /\ AtImport("device_compliance_policies")
    /\ Import("device_compliance_policies")

ImportDeviceConfigurationProfiles ==
    /\ AtImport("device_configuration_profiles")
    /\ Import("device_configuration_profiles")

ImportWindowsDeploymentProfiles ==
    /\ AtImport("windows_deployment_profiles")
    /\ Import("windows_deployment_profiles")

ImportScripts ==
    /\ AtImport("scripts")
    /\ Import("scripts")

ImportConfigurationPolicies ==
    /\ AtImport("configuration_policies")
    /\ Import("configuration_policies")

ImportGroupPolicies ==
    /\ AtImport("group_policies")
    /\ Import("group_policies")

ImportIntentProfiles ==
    /\ AtImport("intent_profiles")
    /\ Import("intent_profiles")

\* A failure that takes every table of the snapshot with it.
Emptied_everything(s, what) ==
    [groups |-> Table(<<>>), memberships |-> Table(<<>>),
     artifacts |-> [k \in Kinds |-> Table(<<>>)],
     assignments |-> [k \in Kinds |-> Table(<<>>)]]

\* The tables of one import, dropped and created again, with no row.
Emptied(s, what) ==
    IF what = "groups"
    THEN [s EXCEPT !.groups = Table(<<>>), !.memberships = Table(<<>>)]
    ELSE [s EXCEPT !.artifacts[what] = Table(<<>>), !.assignments[what] = Table(<<>>)]

\* Whether the import fetches again after its tables were created: the
\* members of each group, the assignments of each artifact.
HasDetailFetch(what) ==
    IF what = "groups" THEN remote.groups # <<>> ELSE remote.artifacts[what] # <<>>

\* The errors that end an import: a fetch that raises, and an INSERT the
\* store refuses (a NOT NULL column given no value).
ImportErrors == {"FetchError", "IntegrityError"}

\* An import raises.  Its first fetch comes before the tables are dropped;
\* a later fetch, and every INSERT, comes after they were created again, and
\* the rows inserted so far are never committed.
ImportFails ==
    /\ pc = "reload"
    /\ HasToken(token)
    /\ \E exception \in ImportErrors :
         LET what == ReloadOrder(beta_enabled)[step]
         IN  /\ \/ exception = "FetchError" /\ store' = store
                \/ HasDetailFetch(what) /\ store' = Emptied(store, what)
             /\ fetched' = fetched \cup {what}
             /\ Raise(exception)
    /\ UNCHANGED <<remote, beta_enabled, reload_arg, group_name, file_exists, step,
                   reload, token, report, diag>>

\* db.show_group_summary(group_name), the last statement of the run.
ShowGroupSummary ==
    /\ pc = "summary"
    /\ report' = show_group_summary(store, beta_enabled, group_name)
    /\ error' = report'.error
    /\ exit_status' = IF report'.error = "" THEN 0 ELSE 1
    /\ pc' = IF report'.error = "" THEN "done" ELSE "crashed"
    /\ UNCHANGED <<remote, beta_enabled, reload_arg, group_name, file_exists, store, step,
                   reload, token, fetched, diag>>

Next ==
    \/ Start
    \/ ConnectOk
    \/ ConnectFails
    \/ ConnectRaises
    \/ OpenDatabase
    \/ ImportGroups
    \/ ImportApps
    \/ ImportDeviceCompliancePolicies
    \/ ImportDeviceConfigurationProfiles
    \/ ImportWindowsDeploymentProfiles
    \/ ImportScripts
    \/ ImportConfigurationPolicies
    \/ ImportGroupPolicies
    \/ ImportIntentProfiles
    \/ ImportFails
    \/ ShowGroupSummary

Spec == Init /\ [][Next]_vars

\* The run on a snapshot file whose tables are drawn from stores with
\* dangling references, the remote serving the data the snapshot was taken
\* from.
InitStore ==
    /\ InitRun(LookupRemotes, BOOLEAN, BOOLEAN, {"Engineering", "Zeta"})
    /\ file_exists = TRUE
    /\ \E groups \in SUBSET {"g1", "g2"}, artifacts \in SUBSET ArtifactIds :
            store = Without(reload_from(EmptyStore, remote, TRUE, 1), groups, artifacts)

SpecStore == InitStore /\ [][Next]_vars


\* ------------------------------------------------- the adapter on its own
\* A caller that holds a GraphAPI object and calls connect, disconnect and
\* get_data in any order, catching what get_data raises.  fetched is the
\* set of resources a request was sent for, error the outcome of the last
\* get_data.
InitAdapter ==
    /\ remote = EarlierRemote
    /\ beta_enabled = TRUE
    /\ reload_arg = FALSE
    /\ group_name = "Engineering"
    /\ NoSnapshot
    /\ pc = "adapter"
    /\ step = 1
    /\ reload = FALSE
    /\ token = NoToken
    /\ fetched = {}
    /\ report = NoSummary("")
    /\ diag = ""
    /\ error = ""
    /\ exit_status = Running

\* GraphAPI.connect, the exchange succeeding.
AdapterConnect ==
    /\ pc = "adapter"
    /\ token' = "access_token"
    /\ UNCHANGED <<remote, beta_enabled, reload_arg, group_name, file_exists, store, pc,
                   step, reload, fetched, report, diag, error, exit_status>>

\* GraphAPI.disconnect
AdapterDisconnect ==
    /\ pc = "adapter"
    /\ token' = NoToken
    /\ UNCHANGED <<remote, beta_enabled, reload_arg, group_name, file_exists, store, pc,
                   step, reload, fetched, report, diag, error, exit_status>>

\* GraphAPI.get_data(url) for the url of one resource.
AdapterGetData ==
    /\ pc = "adapter"
    /\ \E url \in {"groups"} \cup Kinds :
         IF HasToken(token)
         THEN fetched' = fetched \cup {url} /\ error' = ""
         ELSE fetched' = fetched /\ error' = "TokenException"
    /\ UNCHANGED <<remote, beta_enabled, reload_arg, group_name, file_exists, store, pc,
                   step, reload, token, report, diag, exit_status>>

NextAdapter ==
    \/ Next
    \/ AdapterConnect
    \/ AdapterDisconnect
    \/ AdapterGetData

\* The runs of the program, and the adapter on its own.
SpecAdapter == (Init \/ InitAdapter) /\ [][NextAdapter]_vars
\* ------------------------------------------------------------ properties
\* The "member of" relation of the snapshot and its transitive closure,
\* as sets: the groups one step up (down) from a set of groups, and the
\* least set closed under that step.
ParentsOf(S) == {r.parent_id : r \in {x \in Range(store.memberships.rows) : x.child_id \in S}}

ChildrenOf(S) == {r.child_id : r \in {x \in Range(store.memberships.rows) : x.parent_id \in S}}

RECURSIVE UpClosure(_)
UpClosure(S) == IF ParentsOf(S) \subseteq S THEN S ELSE UpClosure(S \cup ParentsOf(S))

RECURSIVE DownClosure(_)
DownClosure(S) == IF ChildrenOf(S) \subseteq S THEN S ELSE DownClosure(S \cup ChildrenOf(S))

Ancestors(g) == UpClosure(ParentsOf({g}))

Descendants(g) == DownClosure(ChildrenOf({g}))

Acyclic == \A g \in GroupIds : g \notin Ancestors(g)

\* The group the run reports on, and whether the report got past the lookup.
TargetId == get_group_id(store, group_name)

Reported == report.out # <<>>

\* The artifact sections of the report that were printed to their end.
ArtifactSectionsPrinted == {s \in Range(report.out) : s.kind \in Kinds /\ s.complete}

ListsNothing(s) == s.lines = <<T("None")>>

\* C1: on an acyclic membership graph, get_parent_groups(g) returns, for
\* every group g, and the ids it returns are exactly the groups that contain
\* g directly or transitively; get_child_groups(g) returns exactly the
\* groups contained in g directly or transitively.
C1_ClosureOnAcyclic ==
    Acyclic =>
        \A g \in GroupIds :
            /\ get_parent_groups(store, g).ok
            /\ Range(get_parent_groups(store, g).ids) = Ancestors(g)
            /\ get_child_groups(store, g).ok
            /\ Range(get_child_groups(store, g).ids) = Descendants(g)

\* A report on a group with an ancestor two levels up and a descendant, on
\* an acyclic graph.
C1_Witness ==
    /\ pc = "done" /\ Reported /\ Acyclic
    /\ Range(report.parent_ids) # ParentsOf({TargetId})
    /\ Range(report.parent_ids) = Ancestors(TargetId)
    /\ report.child_ids # <<>>

\* C2: on a membership graph with a cycle, resolving the ancestors and the
\* descendants of every group returns, the hierarchy prints return, and no
\* run ends in the resolution's recursion.
C2_CyclicResolutionTerminates ==
    /\ error # "RecursionError"
    /\ \A g \in GroupIds :
            /\ get_parent_groups(store, g).ok
            /\ get_child_groups(store, g).ok
            /\ print_parent_groups_hierarchy(store, g, 1).ok
            /\ print_child_groups_hierarchy(store, g, 1).ok

NoDuplicates(s) == \A i, j \in DOMAIN s : s[i] = s[j] => i = j

\* C3: whenever resolution completes, the de-duplicated parent_ids holds
\* each id once and not the group itself, and so does child_ids; in the
\* report's own lists and for every group of the snapshot.
C3_NoDuplicatesNoSelf ==
    /\ Reported =>
            /\ NoDuplicates(report.parent_ids) /\ TargetId \notin Range(report.parent_ids)
            /\ NoDuplicates(report.child_ids) /\ TargetId \notin Range(report.child_ids)
    /\ \A g \in GroupIds :
            /\ get_parent_groups(store, g).ok =>
                    /\ NoDuplicates(Deduplicate(get_parent_groups(store, g).ids))
                    /\ g \notin Range(Deduplicate(get_parent_groups(store, g).ids))
            /\ get_child_groups(store, g).ok =>
                    /\ NoDuplicates(Deduplicate(get_child_groups(store, g).ids))
                    /\ g \notin Range(Deduplicate(get_child_groups(store, g).ids))

\* A report on a group that reaches one ancestor along two paths.
C3_Witness ==
    /\ pc = "done" /\ Reported
    /\ Len(get_parent_groups(store, TargetId).ids) > Len(report.parent_ids)
    /\ Len(report.parent_ids) >= 2

\* The source groups of the report: the target and its ancestors.
Sources == {TargetId} \cup Ancestors(TargetId)

SourceTag(g) == IF g = TargetId THEN "direct" ELSE g

\* The lines a section lists: none when it shows "None".
ListedLines(s) == IF ListsNothing(s) THEN <<>> ELSE s.lines

Count(lines, l) == Cardinality({i \in DOMAIN lines : lines[i] = l})

SameLines(a, b) == \A l \in Range(a) \cup Range(b) : Count(a, l) = Count(b, l)

\* One line per assignment row of the kind whose group is the target or
\* one of its ancestors, in row order.
RECURSIVE LinesOfRows(_, _)
LinesOfRows(k, rows) ==
    IF rows = <<>> THEN <<>>
    ELSE (IF Head(rows).group_id \in Sources
          THEN <<Line(store, k, Head(rows), SourceTag(Head(rows).group_id))>>
          ELSE <<>>)
         \o LinesOfRows(k, Tail(rows))

\* C4: every artifact section lists exactly one line per assignment row
\* whose group is the target ("directly assigned") or an ancestor of the
\* target ("via" its name), and no line for any other row.
C4_OneLinePerAssignment ==
    \A s \in ArtifactSectionsPrinted :
        SameLines(ListedLines(s), LinesOfRows(s.kind, store.assignments[s.kind].rows))

\* The lines of the section, each source group taken once.
RECURSIVE LinesOfSources(_, _)
LinesOfSources(k, groups) ==
    IF groups = {} THEN <<>>
    ELSE LET g == CHOOSE x \in groups : TRUE
         IN  SourceLines(store, k, g, SourceTag(g)) \o LinesOfSources(k, groups \ {g})

\* Whether the line is one of artifact x of kind k: it starts "- name (x) ".
IsLineOf(l, k, x) ==
    LET start == T("- ") \o T(get_artifact_name(store, k, x)) \o T(" (") \o T(x) \o T(") ")
    IN  Len(l) >= Len(start) /\ SubSeq(l, 1, Len(start)) = start

HasAssignment(k, x, g) ==
    \E r \in Range(store.assignments[k].rows) : r.id = x /\ r.group_id = g

\* C5: in every artifact section each source group's lines are listed once,
\* however many membership paths lead to it, and an artifact assigned to
\* several source groups (the target, an ancestor, another ancestor) has a
\* line of its own for each of them.
C5_OncePerSourceGroup ==
    \A s \in ArtifactSectionsPrinted :
        /\ SameLines(ListedLines(s), LinesOfSources(s.kind, Sources))
        /\ \A x \in ArtifactIds :
                Cardinality({l \in Range(ListedLines(s)) : IsLineOf(l, s.kind, x)})
                    >= Cardinality({g \in Sources : HasAssignment(s.kind, x, g)})

\* A report on a group with two paths to an ancestor, where one artifact is
\* assigned to the group itself and to that ancestor.
C5_Witness ==
    /\ pc = "done" /\ Reported
    /\ \E k \in Kinds, x \in ArtifactIds, a \in Ancestors(TargetId) :
            /\ Count(get_parent_groups(store, TargetId).ids, a) >= 2
            /\ HasAssignment(k, x, TargetId)
            /\ HasAssignment(k, x, a)
            /\ \E s \in ArtifactSectionsPrinted : s.kind = k /\ Len(ListedLines(s)) >= 2

\* The order of Python strings, read off the first position where two
\* texts differ.
TextLess(a, b) ==
    \/ Len(a) < Len(b) /\ SubSeq(b, 1, Len(a)) = a
    \/ \E i \in 1..Len(a) :
            /\ i <= Len(b)
            /\ SubSeq(a, 1, i - 1) = SubSeq(b, 1, i - 1)
            /\ a[i] < b[i]

\* C6: the lines of every artifact section are printed in ascending order
\* of their full text, and they are the collected lines, all of them.
C6_SortedAsText ==
    \A s \in ArtifactSectionsPrinted :
        /\ \A i, j \in DOMAIN s.lines : i < j => ~TextLess(s.lines[j], s.lines[i])
        /\ SameLines(ListedLines(s),
                     CollectLines(store, s.kind, TargetId, report.parent_ids))

\* A section whose inherited line is printed before a direct line, in
\* another order than the lines were collected.
C6_Witness ==
    /\ pc = "done" /\ Reported
    /\ \E s \in ArtifactSectionsPrinted :
            /\ s.lines # CollectLines(store, s.kind, TargetId, report.parent_ids)
            /\ \E i, j \in DOMAIN s.lines :
                    /\ i < j
                    /\ s.lines[i] \in Range(SourceLines(store, s.kind, report.parent_ids[1],
                                                        report.parent_ids[1]))
                    /\ s.lines[j] \in Range(SourceLines(store, s.kind, TargetId, "direct"))

\* C7: every section printed to its end shows "None" exactly when it has
\* nothing to list, and then nothing else: an artifact section, when no
\* assignment of the kind names the target or an ancestor; MEMBER OF, when
\* there is no ancestor; MEMBERS, when there is no descendant.
C7_NoneIffEmpty ==
    \A s \in Range(report.out) :
        /\ s.complete
        /\ s.kind # "header"
        => /\ T("None") \in Range(s.lines) => Len(s.lines) = 1
           /\ s.lines # <<>>
           /\ ListsNothing(s) <=>
                CASE s.kind = "member_of" -> Ancestors(TargetId) = {}
                  [] s.kind = "members" -> Descendants(TargetId) = {}
                  [] OTHER ->
                        ~\E r \in Range(store.assignments[s.kind].rows) : r.group_id \in Sources

\* A report that shows "None" in one section and lines in another, and an
\* ancestor under MEMBER OF.
C7_Witness ==
    /\ pc = "done" /\ Reported
    /\ \E s1, s2 \in ArtifactSectionsPrinted : ListsNothing(s1) /\ ~ListsNothing(s2)
    /\ \E s \in Range(report.out) : s.kind = "member_of" /\ ~ListsNothing(s)
    /\ \E s \in Range(report.out) : s.kind = "members" /\ ListsNothing(s)

StartsWith(l, start) == Len(l) >= Len(start) /\ SubSeq(l, 1, Len(start)) = start

EndsWith(l, suffix) ==
    Len(l) >= Len(suffix) /\ SubSeq(l, Len(l) - Len(suffix) + 1, Len(l)) = suffix

InTable(rows, id) == \E r \in Range(rows) : r.id = id

\* The start and the end of the line of an assignment row, with "?" for a
\* name that is in no table.
ExpectedStart(k, r) ==
    T("- ")
    \o (IF InTable(store.artifacts[k].rows, r.id)
        THEN T(get_artifact_name(store, k, r.id)) ELSE T("?"))
    \o T(" (") \o T(r.id) \o T(") ")

ViaUnknown == T("(via ") \o T("?") \o T(")")

ExpectedEnd(r) ==
    IF r.group_id = TargetId THEN T("(directly assigned)")
    ELSE IF InTable(store.groups.rows, r.group_id)
    THEN T("(via ") \o T(get_group_name(store, r.group_id)) \o T(")")
    ELSE ViaUnknown

\* Whether the walks from the target meet no cycle.
ResolutionCompletes ==
    /\ \A g \in {TargetId} \cup Ancestors(TargetId) : g \notin Ancestors(g)
    /\ \A g \in {TargetId} \cup Descendants(TargetId) : g \notin Descendants(g)

SummaryRan == pc = "done" \/ (pc = "crashed" /\ error \in {"RecursionError", "OperationalError"})

AlwaysKinds == Kinds \ BetaKinds

EnabledKinds == IF beta_enabled THEN Kinds ELSE AlwaysKinds

\* The refresh of this run ran through its last import.
RefreshCompleted ==
    /\ reload
    /\ pc \in {"summary", "done", "crashed"}
    /\ error \notin ImportErrors \cup {"TokenException", "KeyError"}

\* C9: with beta_enabled off, no gated kind is fetched and no section of a
\* gated kind is printed, not even its title; a refresh that completes has
\* fetched the groups and exactly the kinds the flag enables, and a report
\* that runs to its end has one section for each of them: the apps, the
\* device compliance policies and the device configuration profiles with
\* either value of the flag.
C9_GatedKindsAbsent ==
    /\ ~beta_enabled =>
            /\ fetched \cap BetaKinds = {}
            /\ \A s \in Range(report.out) : s.kind \notin BetaKinds
    /\ RefreshCompleted => fetched = {"groups"} \cup EnabledKinds
    /\ (pc = "done" /\ Reported) =>
            /\ {s.kind : s \in ArtifactSectionsPrinted} = EnabledKinds
            /\ Len(report.out) = Cardinality(EnabledKinds) + Len(<<"header", "member_of", "members">>)

\* A refresh and a report with the flag off, where the remote has an
\* assignment of a gated kind to the reported group.
C9_Witness ==
    /\ pc = "done" /\ Reported /\ RefreshCompleted /\ ~beta_enabled
    /\ \E k \in BetaKinds, x \in ArtifactIds :
            \E a \in Range(remote.assignments[k][x]) : a.groupId = TargetId

\* The tables as a completed refresh of every kind would leave them.
FreshTables(what) ==
    IF what = "groups"
    THEN /\ store'.groups = Table(GroupRows(remote))
         /\ store'.memberships = Table(MembershipRows(remote))
    ELSE /\ store'.artifacts[what] = Table(ArtifactRows(remote, what))
         /\ store'.assignments[what] = Table(ImportedAssignments(remote, what))

\* C10 as stated: after a refresh that completes, every table of the
\* snapshot, of every artifact kind, holds the rows of the fresh fetch.
C10_EveryTableReplaced ==
    RefreshCompleted =>
        /\ store.groups = Table(GroupRows(remote))
        /\ store.memberships = Table(MembershipRows(remote))
        /\ \A k \in Kinds :
                /\ store.artifacts[k] = Table(ArtifactRows(remote, k))
                /\ store.assignments[k] = Table(ImportedAssignments(remote, k))

\* C10 amended: a refresh that completes leaves the groups and memberships
\* tables and the tables of every kind the flag enables holding exactly the
\* rows of the fresh fetch; the tables of a gated kind are never touched
\* while the flag is off.
C10_EnabledTablesReplaced ==
    [][ /\ RefreshCompleted' =>
                \A what \in {"groups"} \cup EnabledKinds : FreshTables(what)
        /\ \A k \in Kinds \ EnabledKinds :
                /\ store'.artifacts[k] = store.artifacts[k]
                /\ store'.assignments[k] = store.assignments[k]
      ]_vars

\* A completed refresh with the flag off over a snapshot written with the
\* flag on: the rows of the gated kinds are still there, the groups are new.
C10_Witness ==
    /\ RefreshCompleted /\ ~beta_enabled
    /\ \E k \in BetaKinds : store.assignments[k].rows # <<>>
    /\ store.groups = Table(GroupRows(remote))
    /\ EarlierRemote.members # remote.members


\* ------------------------------------------------- refresh and sequencing
\* The two tables one import of Database.reload writes.
TablesOf(s, what) ==
    IF what = "groups" THEN <<s.groups, s.memberships>>
    ELSE <<s.artifacts[what], s.assignments[what]>>

\* The same two tables holding the rows of the fresh fetch.
FreshOf(what) ==
    IF what = "groups" THEN <<Table(GroupRows(remote)), Table(MembershipRows(remote))>>
    ELSE <<Table(ArtifactRows(remote, what)), Table(ImportedAssignments(remote, what))>>

\* The two tables created again and holding no row.
EmptyOf == <<Table(<<>>), Table(<<>>)>>

\* The step in which an import of the refresh raises.
ImportRaises == error = "" /\ error' \in ImportErrors

\* C11: an error in the import of one kind stops the refresh at that import
\* and ends the run uncaught, before any report; every step of a refresh
\* writes only the tables of the import it is at, so that when an import
\* raises, the tables of the imports before it hold the rows of the fresh
\* fetch, the tables of the imports after it are as they were, and the
\* tables of the failing import are as they were or empty.
C11_PartialRefresh ==
    [][ LET order == ReloadOrder(beta_enabled)
        IN  /\ pc # "crashed"
            /\ pc = "reload" =>
                    \A what \in ({"groups"} \cup Kinds) \ {order[step]} :
                        TablesOf(store', what) = TablesOf(store, what)
            /\ ImportRaises =>
                    /\ pc' = "crashed" /\ exit_status' = 1
                    /\ report' = NoSummary("")
                    /\ \A i \in 1..(step - 1) : TablesOf(store', order[i]) = FreshOf(order[i])
                    /\ \A i \in (step + 1)..Len(order) :
                            TablesOf(store', order[i]) = TablesOf(store, order[i])
                    /\ TablesOf(store', order[step]) \in {TablesOf(store, order[step]), EmptyOf}
      ]_vars

\* A refresh that failed in the middle over an earlier snapshot: an import
\* before the failing one left new rows, the failing one left its tables
\* empty, and a later one still holds rows the remote no longer serves.
C11_Witness ==
    LET order == ReloadOrder(beta_enabled)
    IN  /\ pc = "crashed" /\ error \in ImportErrors
        /\ step > 1 /\ step < Len(order)
        /\ TablesOf(store, order[step]) = EmptyOf
        /\ \E i \in 1..(step - 1) :
                /\ TablesOf(store, order[i]) = FreshOf(order[i])
                /\ FreshOf(order[i])[1].rows # <<>>
        /\ \E i \in (step + 1)..Len(order) :
                /\ TablesOf(store, order[i]) # FreshOf(order[i])
                /\ TablesOf(store, order[i])[2].rows # <<>>

\* The refresh of this run fetched everything Database.reload fetches.
FetchedEverything == fetched = {"groups"} \cup EnabledKinds

\* C12: the run refreshes exactly when --reload was given or the snapshot
\* file does not exist at the start: the decision is taken once, from the
\* flag and the file, and Database.reload is entered exactly when it says
\* so.  The report is printed in one step, after every import of the
\* refresh has run; in a run that does not refresh nothing is ever fetched
\* and the snapshot's tables never change, so the report is computed from
\* the snapshot as the run found it.
C12_RefreshIffFlagOrNoFile ==
    [][ /\ pc = "start" => reload' = (reload_arg \/ ~file_exists)
        /\ pc # "start" => reload' = reload
        /\ pc = "open" => ((pc' = "reload") <=> reload)
        /\ pc' = "reload" => (pc \in {"open", "reload"} /\ report' = NoSummary(""))
        /\ report' # report =>
                /\ pc = "summary" /\ report = NoSummary("")
                /\ reload => FetchedEverything
                /\ store' = store
                /\ report' = show_group_summary(store, beta_enabled, group_name)
        /\ (pc # "start" /\ ~reload) =>
                /\ pc' # "reload"
                /\ store' = store
                /\ fetched' = {} /\ fetched = {}
      ]_vars

\* A report printed without a refresh, from a snapshot whose rows are not
\* the rows the remote serves now.
C12_Witness ==
    /\ pc = "done" /\ Reported
    /\ ~reload /\ fetched = {}
    /\ store \in EarlierSnapshots
    /\ store.groups # Table(GroupRows(remote))

\* The credential exchange of this run has failed: connect is over and the
\* adapter holds no token.
ExchangeFailed == token = NoToken /\ pc \notin {"start", "connect"}

\* C13 as stated: whenever the credential exchange has failed, the error
\* description was printed and the run has exited with status 0, having
\* fetched nothing and printed no report.
C13_FailedExchangeExitsZero ==
    ExchangeFailed =>
        /\ diag = "error_description"
        /\ pc = "exited" /\ exit_status = 0
        /\ fetched = {}
        /\ report = NoSummary("")

\* C14: a request is sent only in a step that starts with the adapter
\* holding a token; a get_data without one raises TokenException and sends
\* nothing; and in the main sequence the refresh is only ever entered, and a
\* resource only ever fetched, with the token connect returned.
C14_NoRequestWithoutToken ==
    [][ /\ fetched' # fetched => token # NoToken
        /\ (error' = "TokenException" /\ error # "TokenException") =>
                (token = NoToken /\ fetched' = fetched)
        /\ (pc = "adapter" /\ token = NoToken /\ token' = NoToken) => fetched' = fetched
        /\ pc' # "adapter" =>
                /\ pc' = "reload" => token' # NoToken
                /\ fetched' # {} => token' # NoToken
                /\ error' # "TokenException"
      ]_vars

\* get_data after disconnect: requests were sent while connected, the token
\* is gone, and the last get_data raised TokenException.
C14_Witness ==
    /\ pc = "adapter"
    /\ token = NoToken
    /\ fetched # {}
    /\ error = "TokenException"

\* ------------------------------------------------- duplicates and misses
\* The assignment rows of artifact x of kind k to group g, in row order.
PairRows(k, x, g) ==
    LET Hit(r) == r.id = x /\ r.group_id = g
    IN  SelectSeq(store.assignments[k].rows, Hit)

\* The lines of a section that are of artifact x and of source group g.
PairLines(s, x, g) ==
    LET Hit(l) == IsLineOf(l, s.kind, x) /\ EndsWith(l, Provenance(store, SourceTag(g)))
    IN  SelectSeq(ListedLines(s), Hit)

\* C15: in the applications section an app and a source group that have
\* assignment rows get exactly one line, carrying the intent of the last of
\* those rows, however many rows there are; in the section of every other
\* kind an artifact and a source group get as many lines, all alike, as
\* they have assignment rows.
C15_AppsCollapseOthersRepeat ==
    \A s \in ArtifactSectionsPrinted : \A x \in ArtifactIds : \A g \in Sources :
        LET rows == PairRows(s.kind, x, g)
            lines == PairLines(s, x, g)
        IN  IF s.kind = "apps"
            THEN /\ Len(lines) = IF rows = <<>> THEN 0 ELSE 1
                 /\ rows # <<>> =>
                        lines[1] = Line(store, "apps", rows[Len(rows)], SourceTag(g))
            ELSE /\ Len(lines) = Len(rows)
                 /\ \A i \in DOMAIN lines :
                        lines[i] = Line(store, s.kind, [id |-> x], SourceTag(g))

\* A report where an app has two rows for one source group with different
\* intents, and an artifact of another kind has two rows for one source
\* group.
C15_Witness ==
    /\ pc = "done" /\ Reported
    /\ \E x \in ArtifactIds, g \in Sources :
            LET rows == PairRows("apps", x, g)
            IN  Len(rows) = 2 /\ rows[1].intent # rows[2].intent
    /\ \E s \in ArtifactSectionsPrinted : \E x \in ArtifactIds, g \in Sources :
            s.kind # "apps" /\ Len(PairRows(s.kind, x, g)) = 2 /\ Len(PairLines(s, x, g)) = 2

\* C16: the run connects before it does anything with the snapshot: the
\* database is opened, the refresh entered and the report step reached only
\* with the token of a successful exchange, and only a step that starts with
\* the token creates the file, writes a table, fetches or prints the report.
\* A run whose exchange failed has ended, having printed no report and
\* changed nothing, whether or not a snapshot was there to report from.
C16_ConnectsFirst ==
    [][ /\ pc' \in {"open", "reload", "summary", "done"} => token' # NoToken
        /\ (\/ store' # store
            \/ file_exists' # file_exists
            \/ report' # report
            \/ fetched' # fetched) => token # NoToken
        /\ ExchangeFailed' =>
                /\ pc' \in {"exited", "crashed"}
                /\ report' = NoSummary("")
                /\ store' = store /\ file_exists' = file_exists
                /\ fetched' = {}
      ]_vars

\* A failed exchange in a run that needed no refresh: the snapshot exists,
\* --reload was not given and the group is in the snapshot, and no report
\* was printed.
C16_Witness ==
    /\ ExchangeFailed
    /\ ~reload
    /\ store \in EarlierSnapshots
    /\ TargetId # None
    /\ show_group_summary(store, beta_enabled, group_name).out # <<>>
    /\ report = NoSummary("")


\* The rows of the groups table that have the requested name.
NamedRows == {r \in Range(store.groups.rows) : r.display_name = group_name}

\* C17: when the groups table holds no row of the requested name, the
\* report step prints nothing, raises nothing, and the run ends with status
\* 0; whatever is printed starts with the identity header of a group that
\* has the name, followed by the two membership sections.
C17_UnknownNamePrintsNothing ==
    /\ (pc \in {"done", "crashed", "exited"} /\ store.groups.exists /\ NamedRows = {}) =>
            /\ report.out = <<>>
            /\ error \notin {"OperationalError", "RecursionError"}
            /\ (token # NoToken /\ error = "") => (pc = "done" /\ exit_status = 0)
    /\ report.out # <<>> =>
            /\ Len(report.out) >= 3
            /\ report.out[1].kind = "header"
            /\ \E r \in NamedRows : report.out[1].lines = <<T(group_name), T(r.id)>>
            /\ report.out[2].kind = "member_of" /\ report.out[3].kind = "members"

\* A run on a snapshot with groups in it, for a name none of them has: the
\* report step ran and the run ended normally with nothing printed.
C17_Witness ==
    /\ pc = "done" /\ exit_status = 0 /\ error = ""
    /\ store.groups.rows # <<>>
    /\ NamedRows = {}
    /\ report.out = <<>>
====
